---- MODULE Spec2Model ----
(***************************************************************************)
(* Model of the checkpointing core of burn-autodiff:                       *)
(*   burn-autodiff/src/checkpoint/base.rs  (InnerStates, RetroForwards,    *)
(*                                          NodeTree, Checkpoint)          *)
(*   burn-autodiff/src/graph/base.rs       (Graph, CheckpointingActions)   *)
(*                                                                         *)
(* A panic is fatal: once `panicked` is set no operation runs any more.    *)
(* The store a panicking operation leaves behind is the store as it was    *)
(* at the moment of the panic.                                             *)
(***************************************************************************)
EXTENDS Integers, Sequences, FiniteSets, TLC

\* ---------------------------------------------------------------- bounds
MaxNode == 3        \* node ids are 1..MaxNode
MaxReq == 2         \* largest n_required of an entry at construction
MaxParents == 2     \* longest parent list of a node
MaxInserts == 2     \* insert_pre_computed calls made after construction
MaxGets == 2        \* Checkpoint::get calls the backward steps make on one node
MaxStores == 2      \* Graph storages alive at the same time
MaxRefs == 3        \* Graph handles sharing one storage
MaxActions == 3     \* checkpointing actions registered in one run
MaxThreads == 2     \* threads owning Graph handles
UsizeBits == 3      \* width of usize in the model (n_required wraps mod 2^UsizeBits)

Nodes == 1..MaxNode
Types == {"A", "B"}             \* concrete types behind the type-erased content
PreVals == {0, 1}               \* payloads of pre-computed contents
UsizeModulus == 2 ^ UsizeBits

\* ------------------------------------------------------------ State (enum)
NoContent == [ty |-> "none", val |-> 0]
NoState == [tag |-> "None", n_required |-> 0, content |-> NoContent]
Recompute(k) == [tag |-> "Recompute", n_required |-> k, content |-> NoContent]
Computed(c, k) == [tag |-> "Computed", n_required |-> k, content |-> c]
Content(t, v) == [ty |-> t, val |-> v]

\* State::get_state_content: only a Computed state carries a content.
get_state_content(state) ==
    IF state.tag = "Computed"
    THEN [ok |-> TRUE, content |-> state.content]
    ELSE [ok |-> FALSE, content |-> NoContent]

\* ------------------------------------------------------ panic messages
NoPanic == ""
PanicRemoveNone == "base.rs:50 called Option::unwrap() on a None value"
PanicOverflow == "base.rs:51 attempt to subtract with overflow"
PanicNoContent == "base.rs:55 Cannot get state content of recompute state"
PanicDowncast == "base.rs:57 called Option::unwrap() on a None value"
PanicGetRefNone == "base.rs:24 called Option::unwrap() on a None value"
PanicNoReplay == "base.rs:25 called Option::unwrap() on a None value"
PanicSaveNone == "retro_forward: called Option::unwrap() on a None value"
PanicManualRecompute == "base.rs:143 Cannot insert Recompute state manually"
PanicNotInMap == "base.rs:169 Node is not in the map. You may have tried to access it more times than n_required allowed."

\* The node ids a panic message carries: every message above is a fixed
\* string, none is formatted with a node id.
NodesNamedIn(msg) == {}

\* ------------------------------------------------------------ variables
VARIABLES
    inner_states,     \* Checkpoint.inner_states.map : NodeID -> State (NoState = no entry)
    retro_forwards,   \* DOMAIN of Checkpoint.retro_forwards.map
    node_tree,        \* Checkpoint.node_tree.map : NodeID -> parents
    panicked,         \* NoPanic, or the message of the panic that ended the process
    n_inserts,        \* number of insert_pre_computed calls made so far
    plan,             \* Checkpoint::get calls the backward steps have still to make, per node
    hist,             \* backward pass: the store as built, replays run and values obtained so far
    last              \* the last operation: its arguments, the store before it, its trace

VARIABLES
    g_steps,          \* per storage: the NodeSteps behind Graph.steps (Arc<Mutex<NodeSteps>>)
    g_actions,        \* per storage: the CheckpointingActions behind Graph.checkpointing_actions
    g_refs,           \* per storage: the number of live Graph handles (Arc strong count)
    g_drained,        \* per storage: "no", or what Graph::steps found when it last drained
                      \* the storage ("empty", "full") with no step registered since
    g_merged,         \* storages that were the target of a merge since they were last drained
    g_last            \* the last Graph operation, its arguments and what it returned

VARIABLES
    g_clock,          \* number of checkpointing actions registered so far (their registration order)
    merged3           \* three step maps and the results of merging them in both groupings

VARIABLES
    t_handles,        \* per thread and storage: the Graph handles the thread owns
    t_pc,             \* per thread: the operation it is executing and its position in it
    lock_steps,       \* per storage: the thread holding the spin::Mutex of the steps, or 0
    lock_actions      \* per storage: the thread holding the spin::Mutex of the actions, or 0

ckVars == <<inner_states, retro_forwards, node_tree, panicked, n_inserts, plan, hist, last>>
gVars == <<g_steps, g_actions, g_refs, g_drained, g_merged, g_last>>
tVars == <<t_handles, t_pc, lock_steps, lock_actions>>
xVars == <<g_clock, merged3, tVars>>
vars == <<ckVars, gVars, xVars>>

\* --------------------------------------------------------- small helpers
RECURSIVE SeqsUpTo(_, _)
SeqsUpTo(S, n) ==
    IF n = 0 THEN {<<>>}
    ELSE LET shorter == SeqsUpTo(S, n - 1)
         IN shorter \cup {Append(s, x) : s \in {t \in shorter : Len(t) = n - 1}, x \in S}

Range(s) == {s[i] : i \in 1..Len(s)}
Count(x, s) == Cardinality({i \in 1..Len(s) : s[i] = x})

RECURSIVE SumSeq(_)
SumSeq(s) == IF s = <<>> THEN 0 ELSE Head(s) + SumSeq(Tail(s))

\* An operation in progress: the store, the panic (if any), the replay
\* procedures invoked so far, the nodes get_owned_and_downcasted was called
\* for, the consuming reads that succeeded and the content handed to the
\* last reader.
Run(st) == [st |-> st, err |-> NoPanic, replayed |-> <<>>, asked |-> <<>>, reads |-> <<>>,
            ret |-> NoContent]
Panic(m, msg) == [m EXCEPT !.err = msg]

\* ------------------------------------------------------------ InnerStates
get_ref(st, node_id) == st[node_id]

InnerStates_insert(st, node_id, state) == [st EXCEPT ![node_id] = state]

\* Faulty variant: the entry is copied back while remaining_n_required >= 0.
get_owned_and_downcasted_keeps_last(m, node_id, T, wrap) ==
    IF m.err # NoPanic THEN m
    ELSE
    LET state == m.st[node_id]
        removed == [m.st EXCEPT ![node_id] = NoState]
        call == [m EXCEPT !.asked = Append(m.asked, node_id)]
        taken == [call EXCEPT !.st = removed]
    IN  IF state.tag = "None" THEN Panic(call, PanicRemoveNone)
        ELSE IF state.n_required = 0 /\ ~wrap THEN Panic(taken, PanicOverflow)
        ELSE
        LET remaining_n_required == (state.n_required - 1) % UsizeModulus
            got == get_state_content(state)
        IN  IF ~got.ok THEN Panic(taken, PanicNoContent)
            ELSE IF got.content.ty # T THEN Panic(taken, PanicDowncast)
            ELSE [taken EXCEPT
                    !.st = InnerStates_insert(removed, node_id,
                                              Computed(got.content, remaining_n_required)),
                    !.reads = Append(m.reads, <<node_id, got.content>>),
                    !.ret = got.content]

get_owned_and_downcasted(m, node_id, T, wrap) ==
    IF m.err # NoPanic THEN m
    ELSE
    LET state == m.st[node_id]
        removed == [m.st EXCEPT ![node_id] = NoState]
        call == [m EXCEPT !.asked = Append(m.asked, node_id)]
        taken == [call EXCEPT !.st = removed]
    IN  IF state.tag = "None" THEN Panic(call, PanicRemoveNone)
        ELSE IF state.n_required = 0 /\ ~wrap THEN Panic(taken, PanicOverflow)
        ELSE
        LET remaining_n_required == (state.n_required - 1) % UsizeModulus
            got == get_state_content(state)
        IN  IF ~got.ok THEN Panic(taken, PanicNoContent)
            ELSE IF got.content.ty # T THEN Panic(taken, PanicDowncast)
            ELSE
            LET downcasted == got.content
                new_stored_state ==
                    IF state.tag = "Recompute"
                    THEN Recompute(remaining_n_required)
                    ELSE Computed(downcasted, remaining_n_required)
            IN  [taken EXCEPT
                    !.st = IF remaining_n_required > 0
                           THEN InnerStates_insert(removed, node_id, new_stored_state)
                           ELSE removed,
                    !.reads = Append(m.reads, <<node_id, downcasted>>),
                    !.ret = downcasted]

\* --------------------------------------------------------------- NodeTree
parents(tree, node_id) == tree[node_id]

\* ---------------------------------------------------------- RetroForward
\* A replay procedure: reads each parent (a consuming read, in parent order),
\* computes its output and stores it as Computed with the node's n_required.
ReplayType == "A"

RECURSIVE ReadParents(_, _, _)
ReadParents(m, ps, wrap) ==
    IF ps = <<>> THEN [m |-> m, vals |-> <<>>]
    ELSE LET m1 == get_owned_and_downcasted(m, Head(ps), ReplayType, wrap)
             rest == ReadParents(m1, Tail(ps), wrap)
         IN  [m |-> rest.m, vals |-> <<m1.ret.val>> \o rest.vals]

retro_forward(m, tree, node_id, wrap) ==
    LET called == [m EXCEPT !.replayed = Append(m.replayed, node_id)]
        rd == ReadParents(called, parents(tree, node_id), wrap)
    IN  IF rd.m.err # NoPanic THEN rd.m
        ELSE LET out == Content(ReplayType, 1 + SumSeq(rd.vals))
                 cur == get_ref(rd.m.st, node_id)
             IN  IF cur.tag = "None" THEN Panic(rd.m, PanicSaveNone)
                 ELSE [rd.m EXCEPT
                         !.st = InnerStates_insert(rd.m.st, node_id, Computed(out, cur.n_required))]

\* ---------------------------------------------------------- RetroForwards
\* Faulty variant: the replay of a Recompute node runs whether or not it is registered.
forward_unregistered(m, rf, tree, node_id, wrap) ==
    IF m.err # NoPanic THEN m
    ELSE LET state == get_ref(m.st, node_id)
         IN  IF state.tag = "None" THEN Panic(m, PanicGetRefNone)
             ELSE IF state.tag = "Recompute"
                  THEN retro_forward(m, tree, node_id, wrap)
                  ELSE m

\* Faulty variant: the state of the node is not looked at, a registered replay runs.
forward_any_state(m, rf, tree, node_id, wrap) ==
    IF m.err # NoPanic THEN m
    ELSE LET state == get_ref(m.st, node_id)
         IN  IF state.tag = "None" THEN Panic(m, PanicGetRefNone)
             ELSE IF node_id \notin rf THEN Panic(m, PanicNoReplay)
                  ELSE retro_forward(m, tree, node_id, wrap)

forward(m, rf, tree, node_id, wrap) ==
    IF m.err # NoPanic THEN m
    ELSE LET state == get_ref(m.st, node_id)
         IN  IF state.tag = "None" THEN Panic(m, PanicGetRefNone)
             ELSE IF state.tag = "Recompute"
                  THEN IF node_id \notin rf THEN Panic(m, PanicNoReplay)
                       ELSE retro_forward(m, tree, node_id, wrap)
                  ELSE m

\* ------------------------------------------------------------- Checkpoint
RECURSIVE topological_sort(_, _, _)
RECURSIVE SortParents(_, _, _)

\* Faulty variant: the node is pushed before the sequences of its parents.
topological_sort_node_first(st, tree, node_id) ==
    LET state == get_ref(st, node_id)
    IN  IF state.tag = "None" THEN [err |-> PanicNotInMap, sorted |-> <<>>]
        ELSE IF state.tag = "Recompute"
        THEN LET sorted == SortParents(st, tree, parents(tree, node_id))
             IN  IF sorted.err # NoPanic THEN sorted
                 ELSE [err |-> NoPanic, sorted |-> <<node_id>> \o sorted.sorted]
        ELSE [err |-> NoPanic, sorted |-> <<node_id>>]

\* Faulty variant: the recursion does not stop at a Computed node.
topological_sort_through_computed(st, tree, node_id) ==
    LET state == get_ref(st, node_id)
    IN  IF state.tag = "None" THEN [err |-> PanicNotInMap, sorted |-> <<>>]
        ELSE LET sorted == SortParents(st, tree, parents(tree, node_id))
             IN  IF sorted.err # NoPanic THEN sorted
                 ELSE [err |-> NoPanic, sorted |-> Append(sorted.sorted, node_id)]

SortParents(st, tree, ps) ==
    IF ps = <<>> THEN [err |-> NoPanic, sorted |-> <<>>]
    ELSE LET first == topological_sort(st, tree, Head(ps))
         IN  IF first.err # NoPanic THEN first
             ELSE LET rest == SortParents(st, tree, Tail(ps))
                  IN  IF rest.err # NoPanic THEN rest
                      ELSE [err |-> NoPanic, sorted |-> first.sorted \o rest.sorted]

topological_sort(st, tree, node_id) ==
    LET state == get_ref(st, node_id)
    IN  IF state.tag = "None" THEN [err |-> PanicNotInMap, sorted |-> <<>>]
        ELSE IF state.tag = "Recompute"
        THEN LET sorted == SortParents(st, tree, parents(tree, node_id))
             IN  IF sorted.err # NoPanic THEN sorted
                 ELSE [err |-> NoPanic, sorted |-> Append(sorted.sorted, node_id)]
        ELSE [err |-> NoPanic, sorted |-> <<node_id>>]

RECURSIVE ForEachForward(_, _, _, _, _)
ForEachForward(m, rf, tree, sorted, wrap) ==
    IF sorted = <<>> THEN m
    ELSE ForEachForward(forward(m, rf, tree, Head(sorted), wrap), rf, tree, Tail(sorted), wrap)

\* Faulty variant: the value is read through get_ref, the read is not counted.
get_by_ref(st, rf, tree, node_id, T, wrap) ==
    LET sorted == topological_sort(st, tree, node_id)
    IN  IF sorted.err # NoPanic THEN Panic(Run(st), sorted.err)
        ELSE LET m == ForEachForward(Run(st), rf, tree, sorted.sorted, wrap)
                 state == get_ref(m.st, node_id)
             IN  IF m.err # NoPanic THEN m
                 ELSE [m EXCEPT !.asked = Append(@, node_id),
                                !.reads = Append(@, <<node_id, state.content>>),
                                !.ret = state.content]

get(st, rf, tree, node_id, T, wrap) ==
    LET sorted == topological_sort(st, tree, node_id)
    IN  IF sorted.err # NoPanic THEN Panic(Run(st), sorted.err)
        ELSE get_owned_and_downcasted(
                 ForEachForward(Run(st), rf, tree, sorted.sorted, wrap), node_id, T, wrap)

\* Faulty variant: the state is inserted whatever its tag.
insert_pre_computed_any(st, node_id, state) ==
    [Run(st) EXCEPT !.st = InnerStates_insert(st, node_id, state)]

insert_pre_computed(st, node_id, state) ==
    IF state.tag = "Computed"
    THEN [Run(st) EXCEPT !.st = InnerStates_insert(st, node_id, state)]
    ELSE Panic(Run(st), PanicManualRecompute)

\* ------------------------------------------------------------------ Graph
Stores == 1..MaxStores
StepIds == {"s1", "s2"}         \* the boxed backward steps
NoStep == "none"
EmptySteps == [n \in Nodes |-> NoStep]                       \* HashMap::new()
EmptyActions == [main_actions |-> <<>>, backup_actions |-> <<>>]   \* CheckpointingActions::default()

Keys(map) == {n \in Nodes : map[n] # NoStep}
MapLen(map) == Cardinality(Keys(map))
\* HashMap::insert and HashMap::extend: the inserted entry replaces the old one.
MapInsert(map, id, ops) == [map EXCEPT ![id] = ops]
MapExtend(map, other) == [n \in Nodes |-> IF other[n] # NoStep THEN other[n] ELSE map[n]]

CheckpointingActions_extend(self, other) ==
    [main_actions |-> self.main_actions \o other.main_actions,
     backup_actions |-> self.backup_actions \o other.backup_actions]
CheckpointingActions_len(self) == Len(self.main_actions) + Len(self.backup_actions)

\* The last Graph operation: the handle(s) it was called on, its arguments,
\* the storages as it found them, the storages it drained, the storage of the
\* handle it returned, the actions it returned or handed to the builder.
NoGraphOp == [op |-> "none", store |-> 0, other |-> 0, id |-> 0, ops |-> NoStep,
              pre |-> EmptySteps, ret |-> EmptySteps, in_place |-> FALSE, again |-> "no",
              merged |-> FALSE,
              pre_actions |-> EmptyActions, other_pre |-> EmptySteps,
              other_actions |-> EmptyActions, drained |-> {}, ret_store |-> 0,
              ret_actions |-> EmptyActions]

Threads == 1..MaxThreads
\* A thread between two operations. In an operation: the operation, the
\* position in it, the storage of self and of other, the storage the current
\* critical section is on, whether Arc::get_mut succeeded, the map and the
\* actions the closure works on, the map and actions taken from other (map2,
\* actions2, owned), the actions still to push, the node id to register.
IdlePc == [op |-> "idle", at |-> "idle", store |-> 0, other |-> 0, on |-> 0, in_place |-> FALSE,
           map |-> EmptySteps, map2 |-> EmptySteps, actions |-> EmptyActions,
           actions2 |-> EmptyActions, arg |-> EmptyActions, id |-> 0]

\* No Graph exists.
StoresIdle ==
    /\ g_steps = [s \in Stores |-> EmptySteps]
    /\ g_actions = [s \in Stores |-> EmptyActions]
    /\ g_refs = [s \in Stores |-> 0]
    /\ g_drained = [s \in Stores |-> "no"]
    /\ g_merged = {}
    /\ g_last = NoGraphOp
    /\ g_clock = 0

\* No thread owns a handle or holds a lock.
ThreadsIdle ==
    /\ t_handles = [th \in Threads |-> [s \in Stores |-> 0]]
    /\ t_pc = [th \in Threads |-> IdlePc]
    /\ lock_steps = [s \in Stores |-> 0]
    /\ lock_actions = [s \in Stores |-> 0]

NoMerged3 == [a |-> EmptySteps, b |-> EmptySteps, c |-> EmptySteps, done |-> FALSE,
              ab |-> EmptySteps, cb |-> EmptySteps,
              left |-> EmptySteps, right |-> EmptySteps]

GraphIdle == StoresIdle /\ ThreadsIdle /\ merged3 = NoMerged3

\* ------------------------------------------------------------ construction
\* Parent maps: the parents of a node have smaller ids (the graph is acyclic).
\* Every node has an entry in the NodeTree.
ParentLists(n) == SeqsUpTo(1..(n - 1), MaxParents)
NodeTrees == {t \in [Nodes -> SeqsUpTo(Nodes, MaxParents)] : \A n \in Nodes : t[n] \in ParentLists(n)}

InitContent(n) == Content("A", 0)
InitStates(n) ==
    {NoState} \cup {Recompute(k) : k \in 1..MaxReq}
              \cup {Computed(InitContent(n), k) : k \in 1..MaxReq}
InnerStatesMaps ==
    {s \in [Nodes -> UNION {InitStates(n) : n \in Nodes}] : \A n \in Nodes : s[n] \in InitStates(n)}

NoOp == [op |-> "new", node |-> 0, ty |-> "none", arg |-> NoState,
         pre |-> [n \in Nodes |-> NoState], sorted |-> <<>>, sort_err |-> NoPanic,
         replayed |-> <<>>, asked |-> <<>>, reads |-> <<>>, ret |-> NoContent]

NoHist == [built |-> [n \in Nodes |-> NoState], gets |-> [n \in Nodes |-> 0],
           replays |-> [n \in Nodes |-> 0], obtained |-> [n \in Nodes |-> {}]]

\* Checkpoint::new(inner_states, retro_forwards, node_tree)
Init ==
    /\ node_tree \in NodeTrees
    /\ inner_states \in InnerStatesMaps
    /\ retro_forwards \in {Nodes \ D : D \in {E \in SUBSET Nodes : Cardinality(E) <= 1}}
    /\ panicked = NoPanic
    /\ n_inserts = 0
    /\ plan = [n \in Nodes |-> 0]
    /\ hist = NoHist
    /\ last = NoOp
    /\ GraphIdle

\* ---------------------------------------------------------------- actions
Finish(m, rec) ==
    /\ inner_states' = m.st
    /\ panicked' = m.err
    /\ last' = [rec EXCEPT !.pre = inner_states, !.replayed = m.replayed,
                           !.asked = m.asked, !.reads = m.reads,
                           !.ret = IF m.err = NoPanic THEN m.ret ELSE NoContent]

GetCall(node_id, T, wrap) ==
    LET sorted == topological_sort(inner_states, node_tree, node_id)
    IN  Finish(get(inner_states, retro_forwards, node_tree, node_id, T, wrap),
               [NoOp EXCEPT !.op = "get", !.node = node_id, !.ty = T,
                            !.sorted = sorted.sorted, !.sort_err = sorted.err])

\* Checkpoint::get::<T>(node_id)
Get(node_id, T, wrap) ==
    /\ panicked = NoPanic
    /\ GetCall(node_id, T, wrap)
    /\ UNCHANGED <<retro_forwards, node_tree, n_inserts, plan, hist, gVars, xVars>>

\* Checkpoint::insert_pre_computed(node_id, state)
InsertPreComputed(node_id, state) ==
    /\ panicked = NoPanic
    /\ n_inserts < MaxInserts
    /\ n_inserts' = n_inserts + 1
    /\ Finish(insert_pre_computed(inner_states, node_id, state),
              [NoOp EXCEPT !.op = "insert_pre_computed", !.node = node_id, !.arg = state])
    /\ UNCHANGED <<retro_forwards, node_tree, plan, hist, gVars, xVars>>

\* RetroForwards::forward(node_id, inner_states)
Forward(node_id, wrap) ==
    /\ panicked = NoPanic
    /\ Finish(forward(Run(inner_states), retro_forwards, node_tree, node_id, wrap),
              [NoOp EXCEPT !.op = "forward", !.node = node_id])
    /\ UNCHANGED <<retro_forwards, node_tree, n_inserts, plan, hist, gVars, xVars>>

\* InnerStates::get_owned_and_downcasted::<T>(node_id)
GetOwnedAndDowncasted(node_id, T, wrap) ==
    /\ panicked = NoPanic
    /\ Finish(get_owned_and_downcasted(Run(inner_states), node_id, T, wrap),
              [NoOp EXCEPT !.op = "get_owned_and_downcasted", !.node = node_id, !.ty = T])
    /\ UNCHANGED <<retro_forwards, node_tree, n_inserts, plan, hist, gVars, xVars>>

\* A checkpointer built by Checkpoint::new from any store, registry and tree,
\* used through Checkpoint::get, RetroForwards::forward and
\* InnerStates::get_owned_and_downcasted.
Next ==
    \/ \E n \in Nodes, T \in Types, wrap \in BOOLEAN : Get(n, T, wrap)
    \/ \E n \in Nodes, wrap \in BOOLEAN : Forward(n, wrap)
    \/ \E n \in Nodes, T \in Types, wrap \in BOOLEAN : GetOwnedAndDowncasted(n, T, wrap)

Spec == Init /\ [][Next]_vars

\* ------------------------------------------------- seeding the State Store
InsertArgs ==
    {Recompute(1)} \cup {Computed(Content("A", 1), k) : k \in 0..MaxReq}
                   \cup {Computed(Content("B", 1), 1)}

\* A store of any content whose nodes have no parents and no replay
\* procedure, seeded through insert_pre_computed and read back.
InitSeed ==
    /\ node_tree = [n \in Nodes |-> <<>>]
    /\ inner_states \in InnerStatesMaps
    /\ retro_forwards = {}
    /\ panicked = NoPanic
    /\ n_inserts = 0
    /\ plan = [n \in Nodes |-> 0]
    /\ hist = NoHist
    /\ last = NoOp
    /\ GraphIdle

NextSeed ==
    \/ \E n \in Nodes, s \in InsertArgs : InsertPreComputed(n, s)
    \/ \E n \in Nodes, T \in Types, wrap \in BOOLEAN : GetOwnedAndDowncasted(n, T, wrap)

SpecSeed == InitSeed /\ [][NextSeed]_vars

\* ------------------------------------------------------- the backward pass
\* The checkpointer as the builder leaves it: the n_required of a node is the
\* number of reads its consumers will make, i.e. the Checkpoint::get calls of
\* the backward steps on it plus one read per occurrence in the parent list of
\* each Recompute node that is itself required (a replay runs once).
RECURSIVE BuiltRequired(_, _, _, _)
BuiltRequired(tree, tags, gets, x) ==
    gets[x] + SumSeq([i \in 1..(MaxNode - x) |->
                        IF tags[x + i] = "Recompute" /\ BuiltRequired(tree, tags, gets, x + i) > 0
                        THEN Count(x, tree[x + i]) ELSE 0])

BuiltStates(tree, tags, gets) ==
    [x \in Nodes |->
        LET k == BuiltRequired(tree, tags, gets, x)
        IN  IF k = 0 THEN NoState
            ELSE IF tags[x] = "Recompute" THEN Recompute(k)
            ELSE Computed(InitContent(x), k)]

BuiltRetroForwards(tree, tags, gets) ==
    {x \in Nodes : tags[x] = "Recompute" /\ BuiltRequired(tree, tags, gets, x) > 0}

InitBackward ==
    /\ node_tree \in NodeTrees
    /\ \E tags \in [Nodes -> {"Recompute", "Computed"}], gets \in [Nodes -> 0..MaxGets] :
          /\ \A x \in Nodes : BuiltRequired(node_tree, tags, gets, x) < UsizeModulus
          /\ inner_states = BuiltStates(node_tree, tags, gets)
          /\ retro_forwards = BuiltRetroForwards(node_tree, tags, gets)
          /\ plan = gets
          /\ hist = [NoHist EXCEPT !.built = BuiltStates(node_tree, tags, gets), !.gets = gets]
    /\ panicked = NoPanic
    /\ n_inserts = 0
    /\ last = NoOp
    /\ GraphIdle

ValuesRead(reads, x) == {reads[i][2] : i \in {j \in 1..Len(reads) : reads[j][1] = x}}

\* A backward step asks the checkpointer for the value of node_id.
BackwardGet(node_id, wrap) ==
    /\ panicked = NoPanic
    /\ plan[node_id] > 0
    /\ plan' = [plan EXCEPT ![node_id] = @ - 1]
    /\ GetCall(node_id, ReplayType, wrap)
    /\ LET m == get(inner_states, retro_forwards, node_tree, node_id, ReplayType, wrap)
       IN  hist' = [hist EXCEPT
                       !.replays = [x \in Nodes |-> @[x] + Count(x, m.replayed)],
                       !.obtained = [x \in Nodes |-> @[x] \cup ValuesRead(m.reads, x)]]
    /\ UNCHANGED <<retro_forwards, node_tree, n_inserts, gVars, xVars>>

NextBackward == \E n \in Nodes, wrap \in BOOLEAN : BackwardGet(n, wrap)

SpecBackward == InitBackward /\ [][NextBackward]_vars

TypeOK ==
    /\ \A n \in Nodes : inner_states[n].tag \in {"None", "Recompute", "Computed"}
    /\ \A n \in Nodes : inner_states[n].n_required \in 0..(UsizeModulus - 1)
    /\ retro_forwards \subseteq Nodes
\* ------------------------------------------------------- Graph operations
\* No checkpointer exists.
CheckpointIdle ==
    /\ node_tree = [n \in Nodes |-> <<>>]
    /\ inner_states = [n \in Nodes |-> NoState]
    /\ retro_forwards = {}
    /\ panicked = NoPanic
    /\ n_inserts = 0
    /\ plan = [n \in Nodes |-> 0]
    /\ hist = NoHist
    /\ last = NoOp

InitGraph == CheckpointIdle /\ GraphIdle

\* Dropping a handle: the storage is freed with its last handle.
Released(refs, s) == [refs EXCEPT ![s] = @ - 1]
Freed(refs) == {s \in Stores : refs[s] = 0}
Live(f, refs, empty) == [s \in Stores |-> IF refs[s] = 0 THEN empty ELSE f[s]]

\* Faulty variant: the map is changed in place whatever the number of handles.
InPlace_always(s) == TRUE

\* execute_mut_steps: Arc::get_mut succeeds (and the map is changed in place,
\* without the lock) exactly when the handle is the only one.
InPlace(s) == g_refs[s] = 1

\* Graph::new()
GraphNew(s) ==
    /\ g_refs[s] = 0
    /\ \A t \in Stores : t < s => g_refs[t] > 0
    /\ g_refs' = [g_refs EXCEPT ![s] = 1]
    /\ g_steps' = [g_steps EXCEPT ![s] = EmptySteps]
    /\ g_actions' = [g_actions EXCEPT ![s] = EmptyActions]
    /\ g_last' = [NoGraphOp EXCEPT !.op = "new", !.store = s]
    /\ UNCHANGED <<g_drained, g_merged, ckVars, xVars>>

\* Graph::clone()
GraphClone(s) ==
    /\ g_refs[s] > 0
    /\ g_refs[s] < MaxRefs
    /\ g_refs' = [g_refs EXCEPT ![s] = @ + 1]
    /\ g_last' = [NoGraphOp EXCEPT !.op = "clone", !.store = s]
    /\ UNCHANGED <<g_steps, g_actions, g_drained, g_merged, ckVars, xVars>>

\* Graph::register(self, id, ops)
Register(s, id, ops) ==
    /\ g_refs[s] > 0
    /\ g_steps' = [g_steps EXCEPT ![s] = MapInsert(@, id, ops)]
    /\ g_drained' = [g_drained EXCEPT ![s] = "no"]
    /\ g_merged' = g_merged \ {s}
    /\ g_last' = [NoGraphOp EXCEPT !.op = "register", !.store = s, !.id = id, !.ops = ops,
                                   !.pre = g_steps[s], !.in_place = InPlace(s)]
    /\ UNCHANGED <<g_actions, g_refs, ckVars, xVars>>

\* Faulty variant: the map is cloned, not swapped out.
steps_cloned(map) == [ret |-> map, left |-> map]

\* Graph::steps(self): the map is swapped with an empty one and returned; the
\* handle is consumed.
steps(map) == [ret |-> map, left |-> EmptySteps]

Steps(s) ==
    /\ g_refs[s] > 0
    /\ LET refs == Released(g_refs, s)
           out == steps(g_steps[s])
       IN  /\ g_refs' = refs
           /\ g_steps' = Live([g_steps EXCEPT ![s] = out.left], refs, EmptySteps)
           /\ g_actions' = Live(g_actions, refs, EmptyActions)
           /\ g_drained' = Live([g_drained EXCEPT ![s] =
                                    IF out.ret = EmptySteps THEN "empty" ELSE "full"], refs, "no")
           /\ g_merged' = (g_merged \ {s}) \ Freed(refs)
           /\ g_last' = [NoGraphOp EXCEPT !.op = "steps", !.store = s, !.pre = g_steps[s],
                                          !.ret = out.ret, !.in_place = InPlace(s),
                                          !.again = g_drained[s], !.merged = s \in g_merged]
    /\ UNCHANGED <<ckVars, xVars>>

\* Faulty variant: the map of self is swapped out and never put back.
merge_steps_not_swapped_back(map1, map2) ==
    IF MapLen(map1) > MapLen(map2)
    THEN MapExtend(map1, map2)
    ELSE EmptySteps

\* Graph::merge_different, on the two maps and the two action lists.
merge_steps(map1, map2) ==
    IF MapLen(map1) > MapLen(map2)
    THEN MapExtend(map1, map2)
    ELSE MapExtend(map2, map1)

merge_actions(actions1, actions2) ==
    IF CheckpointingActions_len(actions1) > CheckpointingActions_len(actions2)
    THEN CheckpointingActions_extend(actions1, actions2)
    ELSE CheckpointingActions_extend(actions2, actions1)

\* Faulty variant: two handles are never found to share their storage.
ptr_eq_never(s, t) == FALSE

\* Arc::ptr_eq(&self.steps, &other.steps)
ptr_eq(s, t) == s = t

\* Graph::merge(self, other): self is a handle of storage s, other of storage t.
\* merge_different drains the storage of other (other.clone().steps(), then
\* other.checkpointing_actions_own(), which drops other) and then changes the
\* map and the actions of self.
Merge(s, t) ==
    /\ g_refs[s] > 0 /\ g_refs[t] > 0
    /\ (s = t) => g_refs[s] > 1
    /\ LET refs == Released(g_refs, t)
           rec == [NoGraphOp EXCEPT !.op = "merge", !.store = s, !.other = t,
                                    !.pre = g_steps[s], !.pre_actions = g_actions[s],
                                    !.other_pre = g_steps[t],
                                    !.other_actions = g_actions[t], !.ret_store = s]
       IN  /\ g_refs' = refs
           /\ IF ptr_eq(s, t)
              THEN /\ UNCHANGED <<g_steps, g_actions, g_drained, g_merged>>
                   /\ g_last' = rec
              ELSE LET map2 == steps(g_steps[t])
                       drained_steps == [g_steps EXCEPT ![t] = map2.left]
                       actions2 == g_actions[t]
                       drained_actions == [g_actions EXCEPT ![t] = EmptyActions]
                   IN  /\ g_steps' = Live([drained_steps EXCEPT
                                              ![s] = merge_steps(@, map2.ret)],
                                          refs, EmptySteps)
                       /\ g_actions' = Live([drained_actions EXCEPT
                                               ![s] = merge_actions(@, actions2)],
                                            refs, EmptyActions)
                       /\ g_drained' = Live([g_drained EXCEPT ![t] =
                                               IF map2.ret = EmptySteps THEN "empty" ELSE "full"],
                                            refs, "no")
                       /\ g_merged' = ((g_merged \ {t}) \cup {s}) \ Freed(refs)
                       /\ g_last' = [rec EXCEPT !.in_place = InPlace(s), !.drained = {t}]
    /\ UNCHANGED <<ckVars, xVars>>

NextGraph ==
    \/ \E s \in Stores : GraphNew(s)
    \/ \E s \in Stores : GraphClone(s)
    \/ \E s \in Stores, id \in Nodes, ops \in StepIds : Register(s, id, ops)
    \/ \E s \in Stores : Steps(s)
    \/ \E s, t \in Stores : Merge(s, t)

SpecGraph == InitGraph /\ [][NextGraph]_vars

\* ------------------------------------------------- checkpointing actions
\* A CheckpointingAction: the node it is about, the policy it asks for
\* (Computed: retain the value, Recompute: register a replay), and its place
\* in the order of registration.
ActionNodes == 1..2
Policies == {"Computed", "Recompute"}
Action(seq, node, policy) == [seq |-> seq, node |-> node, policy |-> policy]

\* What one operation of the forward pass emits about a node: one main
\* action, one backup action, or a main action followed by a backup action.
Emitted(clock, nodes, policies) ==
    {[main_actions |-> <<Action(clock + 1, n, p)>>, backup_actions |-> <<>>] :
        n \in nodes, p \in policies}
    \cup {[main_actions |-> <<>>, backup_actions |-> <<Action(clock + 1, n, p)>>] :
        n \in nodes, p \in policies}
    \cup {[main_actions |-> <<Action(clock + 1, n, p)>>,
           backup_actions |-> <<Action(clock + 2, n, q)>>] :
        n \in nodes, p \in policies, q \in policies}

\* Graph::extend_checkpointing_actions(&self, checkpointing_actions)
ExtendCheckpointingActions(s, actions) ==
    /\ g_refs[s] > 0
    /\ g_clock + CheckpointingActions_len(actions) <= MaxActions
    /\ g_clock' = g_clock + CheckpointingActions_len(actions)
    /\ g_actions' = [g_actions EXCEPT ![s] = CheckpointingActions_extend(@, actions)]
    /\ g_last' = [NoGraphOp EXCEPT !.op = "extend_checkpointing_actions", !.store = s,
                                   !.pre = g_steps[s], !.pre_actions = g_actions[s],
                                   !.other_actions = actions]
    /\ UNCHANGED <<g_steps, g_refs, g_drained, g_merged, ckVars, merged3, tVars>>

\* Graph::checkpointing_actions_own(self): the actions are swapped with empty
\* ones and returned; the handle is consumed.
checkpointing_actions_own(actions) == [ret |-> actions, left |-> EmptyActions]

CheckpointingActionsOwn(s) ==
    /\ g_refs[s] > 0
    /\ LET refs == Released(g_refs, s)
           out == checkpointing_actions_own(g_actions[s])
       IN  /\ g_refs' = refs
           /\ g_actions' = Live([g_actions EXCEPT ![s] = out.left], refs, EmptyActions)
           /\ g_steps' = Live(g_steps, refs, EmptySteps)
           /\ g_drained' = Live(g_drained, refs, "no")
           /\ g_merged' = g_merged \ Freed(refs)
           /\ g_last' = [NoGraphOp EXCEPT !.op = "checkpointing_actions_own", !.store = s,
                                          !.pre = g_steps[s], !.pre_actions = g_actions[s],
                                          !.ret_actions = out.ret]
    /\ UNCHANGED <<ckVars, xVars>>

\* checkpoint::builder::build_checkpointer(main_actions, backup_actions, steps):
\* the main actions are applied first, a backup action only to a node that
\* received no main action; of several actions of one list for one node the
\* first registered is the one consulted. A node gets the state its action
\* asks for, and a replay procedure when the action is Recompute.
ActionsFor(list, n) == SelectSeq(list, LAMBDA a : a.node = n)
Consulted(main_actions, backup_actions, n) ==
    IF ActionsFor(main_actions, n) # <<>> THEN <<Head(ActionsFor(main_actions, n))>>
    ELSE IF ActionsFor(backup_actions, n) # <<>> THEN <<Head(ActionsFor(backup_actions, n))>>
    ELSE <<>>

builder_build_checkpointer(main_actions, backup_actions, map) ==
    [inner_states |->
        [n \in Nodes |->
            LET a == Consulted(main_actions, backup_actions, n)
            IN  IF a = <<>> THEN NoState
                ELSE IF a[1].policy = "Recompute" THEN Recompute(1)
                ELSE Computed(InitContent(n), 1)],
     retro_forwards |->
        {n \in Nodes : LET a == Consulted(main_actions, backup_actions, n)
                       IN  a # <<>> /\ a[1].policy = "Recompute"}]

\* Faulty variant: the two lists are handed to the builder in the wrong order.
build_checkpointer_swapped(actions, map) ==
    [left |-> EmptyActions,
     owned |-> actions,
     built |-> builder_build_checkpointer(actions.backup_actions, actions.main_actions, map)]

\* Graph::build_checkpointer(&self): the pending actions are replaced by empty
\* ones and handed, with the step map, to the builder.
build_checkpointer(actions, map) ==
    [left |-> EmptyActions,
     owned |-> actions,
     built |-> builder_build_checkpointer(actions.main_actions, actions.backup_actions, map)]

BuildCheckpointer(s) ==
    /\ g_refs[s] > 0
    /\ LET out == build_checkpointer(g_actions[s], g_steps[s])
       IN  /\ g_actions' = [g_actions EXCEPT ![s] = out.left]
           /\ inner_states' = out.built.inner_states
           /\ retro_forwards' = out.built.retro_forwards
           /\ g_last' = [NoGraphOp EXCEPT !.op = "build_checkpointer", !.store = s,
                                          !.pre = g_steps[s], !.pre_actions = g_actions[s],
                                          !.ret_actions = out.owned]
    /\ UNCHANGED <<g_steps, g_refs, g_drained, g_merged, xVars>>
    /\ UNCHANGED <<node_tree, panicked, n_inserts, plan, hist, last>>

\* Graphs built by the forward pass: steps and checkpointing actions are
\* registered, handles are cloned and merged, and the actions are taken out.
NextActions ==
    \/ \E s \in Stores : GraphNew(s)
    \/ \E s \in Stores : g_refs[s] < 2 /\ GraphClone(s)
    \/ \E s \in Stores : Register(s, s, "s1")
    \/ \E s \in Stores : \E actions \in Emitted(g_clock, {1}, {"Computed"}) :
          ExtendCheckpointingActions(s, actions)
    \/ \E s, t \in Stores : Merge(s, t)
    \/ \E s \in Stores : CheckpointingActionsOwn(s)

SpecActions == InitGraph /\ [][NextActions]_vars

\* The start of a backward pass: actions of either policy are registered for
\* the nodes, graphs are merged, and the checkpointer is built.
NextBuild ==
    \/ \E s \in Stores : GraphNew(s)
    \/ \E s \in Stores : \E actions \in Emitted(g_clock, ActionNodes, Policies) :
          ExtendCheckpointingActions(s, actions)
    \/ \E s, t \in Stores : Merge(s, t)
    \/ \E s \in Stores : BuildCheckpointer(s)

SpecBuild == InitGraph /\ [][NextBuild]_vars

\* ------------------------------------------------ merging three step maps
\* The step maps three graphs with distinct storage can hold.
StepMaps == [Nodes -> StepIds \cup {NoStep}]

InitMerge3 ==
    /\ CheckpointIdle
    /\ StoresIdle
    /\ ThreadsIdle
    /\ \E a, b, c \in StepMaps : merged3 = [NoMerged3 EXCEPT !.a = a, !.b = b, !.c = c]

\* a.merge(b).merge(c) and a.merge(b.merge(c)), and next to them a.merge(b)
\* and c.merge(b), on the step maps.
Merge3 ==
    /\ ~merged3.done
    /\ merged3' = [merged3 EXCEPT
                      !.done = TRUE,
                      !.ab = merge_steps(merged3.a, merged3.b),
                      !.cb = merge_steps(merged3.c, merged3.b),
                      !.left = merge_steps(merge_steps(merged3.a, merged3.b), merged3.c),
                      !.right = merge_steps(merged3.a, merge_steps(merged3.b, merged3.c))]
    /\ UNCHANGED <<ckVars, gVars, g_clock, tVars>>

NextMerge3 == Merge3

SpecMerge3 == InitMerge3 /\ [][NextMerge3]_vars

\* ------------------------------------------------------ threads and locks
\* Threads own Graph handles and run the operations of Graph step by step: a
\* critical section on the map or on the actions of a storage is entered
\* (Arc::get_mut, or else Mutex::lock), the closure reads what it works on,
\* writes the result, and the guard is dropped.
Give(handles, th, s) == [handles EXCEPT ![th][s] = @ + 1]
Take(handles, th, s) == [handles EXCEPT ![th][s] = @ - 1]

\* The storages after a step: a storage is freed with its last handle.
Storage(map, actions, refs) ==
    /\ g_refs' = refs
    /\ g_steps' = Live(map, refs, EmptySteps)
    /\ g_actions' = Live(actions, refs, EmptyActions)

\* Faulty variant: lock() returns without waiting for the holder.
lock_free_always(holder) == TRUE

\* spin::Mutex::lock returns once no thread holds the mutex.
lock_free(holder) == holder = 0

\* Faulty variant: merge_different keeps the guard of the steps of self until
\* it is done with the actions of self.
ReleasesStepsLock_late(op, on, self) == ~(op = "merge" /\ on = self)

\* execute_mut_steps: the guard of the steps is dropped at the end of the
\* match arm, before the function returns.
ReleasesStepsLock(op, on, self) == TRUE

ConcFrame == UNCHANGED <<node_tree, panicked, n_inserts, plan, hist, last,
                         g_drained, g_merged, merged3>>
NoCheckpointer == UNCHANGED <<inner_states, retro_forwards, g_last>>
SameStorage == UNCHANGED <<g_steps, g_actions, g_refs>>
SameLocks == UNCHANGED <<lock_steps, lock_actions>>
Idle(th) == t_pc[th].op = "idle"

\* Graph::new() on thread th
CNew(th, s) ==
    /\ Idle(th)
    /\ g_refs[s] = 0
    /\ \A t \in Stores : t < s => g_refs[t] > 0
    /\ Storage(g_steps, g_actions, [g_refs EXCEPT ![s] = 1])
    /\ t_handles' = Give(t_handles, th, s)
    /\ UNCHANGED <<t_pc, g_clock>>
    /\ SameLocks /\ NoCheckpointer /\ ConcFrame

\* Graph::clone() on thread th, the clone is handed to thread u
CClone(th, u, s) ==
    /\ Idle(th)
    /\ t_handles[th][s] > 0
    /\ g_refs[s] < MaxThreads
    /\ Storage(g_steps, g_actions, [g_refs EXCEPT ![s] = @ + 1])
    /\ t_handles' = Give(t_handles, u, s)
    /\ UNCHANGED <<t_pc, g_clock>>
    /\ SameLocks /\ NoCheckpointer /\ ConcFrame

\* A call of register, steps or checkpointing_actions_own: self is moved
\* into the call.
StartOwned(th, op, s) ==
    /\ Idle(th)
    /\ t_handles[th][s] > 0
    /\ t_handles' = Take(t_handles, th, s)
    /\ t_pc' = [t_pc EXCEPT ![th] =
                  [IdlePc EXCEPT !.op = op, !.store = s, !.on = s, !.id = th,
                                 !.at = IF op = "checkpointing_actions_own"
                                        THEN "enter_actions" ELSE "enter_steps"]]
    /\ UNCHANGED g_clock
    /\ SameStorage /\ SameLocks /\ NoCheckpointer /\ ConcFrame

\* A call of merge(self, other): both handles are moved into the call.
StartMerge(th, s, t) ==
    /\ Idle(th)
    /\ t_handles[th][s] > 0 /\ t_handles[th][t] > 0
    /\ (s = t) => t_handles[th][s] > 1
    /\ t_handles' = Take(Take(t_handles, th, s), th, t)
    /\ t_pc' = [t_pc EXCEPT ![th] =
                  [IdlePc EXCEPT !.op = "merge", !.store = s, !.other = t, !.at = "ptr_eq"]]
    /\ UNCHANGED g_clock
    /\ SameStorage /\ SameLocks /\ NoCheckpointer /\ ConcFrame

\* A call of extend_checkpointing_actions or build_checkpointer on &self.
StartBorrowed(th, op, s, actions) ==
    /\ Idle(th)
    /\ t_handles[th][s] > 0
    /\ g_clock + CheckpointingActions_len(actions) <= MaxActions
    /\ g_clock' = g_clock + CheckpointingActions_len(actions)
    /\ t_pc' = [t_pc EXCEPT ![th] =
                  [IdlePc EXCEPT !.op = op, !.store = s, !.on = s, !.arg = actions,
                                 !.at = "lock_actions"]]
    /\ UNCHANGED t_handles
    /\ SameStorage /\ SameLocks /\ NoCheckpointer /\ ConcFrame

\* merge: Arc::ptr_eq; on the same storage other is dropped and self returned,
\* otherwise merge_different starts with other.clone().
MergePtrEq(th) ==
    LET pc == t_pc[th]
    IN  /\ pc.at = "ptr_eq"
        /\ IF ptr_eq(pc.store, pc.other)
           THEN /\ Storage(g_steps, g_actions, Released(g_refs, pc.other))
                /\ t_handles' = Give(t_handles, th, pc.store)
                /\ t_pc' = [t_pc EXCEPT ![th] = IdlePc]
           ELSE /\ Storage(g_steps, g_actions, [g_refs EXCEPT ![pc.other] = @ + 1])
                /\ t_pc' = [t_pc EXCEPT ![th] = [pc EXCEPT !.at = "enter_steps", !.on = pc.other]]
                /\ UNCHANGED t_handles
        /\ UNCHANGED g_clock
        /\ SameLocks /\ NoCheckpointer /\ ConcFrame

\* execute_mut_steps: Arc::get_mut, or else lock(); the closure gets the map.
EnterSteps(th) ==
    LET pc == t_pc[th]
        s == pc.on
    IN  /\ pc.at = "enter_steps"
        /\ IF InPlace(s)
           THEN UNCHANGED lock_steps
           ELSE /\ lock_free(lock_steps[s])
                /\ lock_steps' = [lock_steps EXCEPT ![s] = th]
        /\ t_pc' = [t_pc EXCEPT ![th] =
                      [pc EXCEPT !.at = "write_steps", !.in_place = InPlace(s),
                                 !.map = g_steps[s]]]
        /\ UNCHANGED <<t_handles, lock_actions, g_clock>>
        /\ SameStorage /\ NoCheckpointer /\ ConcFrame

\* The closure of register, steps or merge_different writes the map, the
\* guard is dropped, and the operation goes on or returns.
WriteSteps(th) ==
    LET pc == t_pc[th]
        s == pc.on
        map == IF pc.op = "register" THEN MapInsert(pc.map, pc.id, "s1")
               ELSE IF pc.op = "merge" /\ s = pc.store THEN merge_steps(pc.map, pc.map2)
               ELSE steps(pc.map).left
        written == [g_steps EXCEPT ![s] = map]
    IN  /\ pc.at = "write_steps"
        /\ lock_steps' = IF pc.in_place \/ ~ReleasesStepsLock(pc.op, s, pc.store)
                         THEN lock_steps ELSE [lock_steps EXCEPT ![s] = 0]
        /\ IF pc.op = "register"
           THEN /\ Storage(written, g_actions, g_refs)
                /\ t_handles' = Give(t_handles, th, s)
                /\ t_pc' = [t_pc EXCEPT ![th] = IdlePc]
           ELSE IF pc.op = "steps"
           THEN /\ Storage(written, g_actions, Released(g_refs, s))
                /\ t_pc' = [t_pc EXCEPT ![th] = IdlePc]
                /\ UNCHANGED t_handles
           ELSE IF s = pc.other
           THEN /\ Storage(written, g_actions, Released(g_refs, s))
                /\ t_pc' = [t_pc EXCEPT ![th] =
                              [pc EXCEPT !.at = "enter_actions", !.map2 = steps(pc.map).ret,
                                         !.map = EmptySteps, !.in_place = FALSE]]
                /\ UNCHANGED t_handles
           ELSE /\ Storage(written, g_actions, g_refs)
                /\ t_pc' = [t_pc EXCEPT ![th] =
                              [pc EXCEPT !.at = "enter_actions", !.map = EmptySteps,
                                         !.map2 = EmptySteps, !.in_place = FALSE]]
                /\ UNCHANGED t_handles
        /\ UNCHANGED <<lock_actions, g_clock>>
        /\ NoCheckpointer /\ ConcFrame

\* execute_mut_checkpointing_actions: Arc::get_mut, or else lock().
EnterActions(th) ==
    LET pc == t_pc[th]
        s == pc.on
    IN  /\ pc.at = "enter_actions"
        /\ IF InPlace(s)
           THEN UNCHANGED lock_actions
           ELSE /\ lock_free(lock_actions[s])
                /\ lock_actions' = [lock_actions EXCEPT ![s] = th]
        /\ t_pc' = [t_pc EXCEPT ![th] =
                      [pc EXCEPT !.at = "write_actions", !.in_place = InPlace(s),
                                 !.actions = g_actions[s]]]
        /\ UNCHANGED <<t_handles, lock_steps, g_clock>>
        /\ SameStorage /\ NoCheckpointer /\ ConcFrame

\* The closure of checkpointing_actions_own or merge_different writes the
\* actions, the guard is dropped, and the operation goes on or returns.
WriteActions(th) ==
    LET pc == t_pc[th]
        s == pc.on
        actions == IF pc.op = "merge" /\ s = pc.store
                   THEN merge_actions(pc.actions, pc.actions2)
                   ELSE checkpointing_actions_own(pc.actions).left
        written == [g_actions EXCEPT ![s] = actions]
    IN  /\ pc.at = "write_actions"
        /\ lock_actions' = IF pc.in_place THEN lock_actions ELSE [lock_actions EXCEPT ![s] = 0]
        /\ IF pc.op = "checkpointing_actions_own"
           THEN /\ Storage(g_steps, written, Released(g_refs, s))
                /\ t_pc' = [t_pc EXCEPT ![th] = IdlePc]
                /\ UNCHANGED <<t_handles, lock_steps>>
           ELSE IF s = pc.other
           THEN /\ Storage(g_steps, written, Released(g_refs, s))
                /\ t_pc' = [t_pc EXCEPT ![th] =
                              [pc EXCEPT !.at = "enter_steps", !.on = pc.store,
                                         !.actions2 = checkpointing_actions_own(pc.actions).ret,
                                         !.actions = EmptyActions, !.in_place = FALSE]]
                /\ UNCHANGED <<t_handles, lock_steps>>
           ELSE /\ Storage(g_steps, written, g_refs)
                /\ t_handles' = Give(t_handles, th, s)
                /\ t_pc' = [t_pc EXCEPT ![th] = IdlePc]
                /\ lock_steps' = IF lock_steps[s] = th
                                 THEN [lock_steps EXCEPT ![s] = 0] ELSE lock_steps
        /\ UNCHANGED g_clock
        /\ NoCheckpointer /\ ConcFrame

\* extend_checkpointing_actions: self.checkpointing_actions.lock()
ExtendLock(th) ==
    LET pc == t_pc[th]
        s == pc.on
    IN  /\ pc.op = "extend_checkpointing_actions" /\ pc.at = "lock_actions"
        /\ lock_free(lock_actions[s])
        /\ lock_actions' = [lock_actions EXCEPT ![s] = th]
        /\ t_pc' = [t_pc EXCEPT ![th] = [pc EXCEPT !.at = "push"]]
        /\ UNCHANGED <<t_handles, lock_steps, g_clock>>
        /\ SameStorage /\ NoCheckpointer /\ ConcFrame

\* CheckpointingActions::extend pushes the next action, the main actions
\* first; after the last one the guard is dropped.
ExtendPush(th) ==
    LET pc == t_pc[th]
        s == pc.on
        one == IF pc.arg.main_actions # <<>>
               THEN [main_actions |-> <<Head(pc.arg.main_actions)>>, backup_actions |-> <<>>]
               ELSE [main_actions |-> <<>>, backup_actions |-> <<Head(pc.arg.backup_actions)>>]
        rest == IF pc.arg.main_actions # <<>>
                THEN [pc.arg EXCEPT !.main_actions = Tail(@)]
                ELSE [pc.arg EXCEPT !.backup_actions = Tail(@)]
    IN  /\ pc.at = "push"
        /\ Storage(g_steps, [g_actions EXCEPT ![s] = CheckpointingActions_extend(@, one)], g_refs)
        /\ IF rest = EmptyActions
           THEN /\ lock_actions' = [lock_actions EXCEPT ![s] = 0]
                /\ t_pc' = [t_pc EXCEPT ![th] = IdlePc]
           ELSE /\ t_pc' = [t_pc EXCEPT ![th] = [pc EXCEPT !.arg = rest]]
                /\ UNCHANGED lock_actions
        /\ UNCHANGED <<t_handles, lock_steps, g_clock>>
        /\ NoCheckpointer /\ ConcFrame

\* build_checkpointer: self.checkpointing_actions.lock() and mem::replace
BuildReplace(th) ==
    LET pc == t_pc[th]
        s == pc.on
        out == build_checkpointer(g_actions[s], g_steps[s])
    IN  /\ pc.op = "build_checkpointer" /\ pc.at = "lock_actions"
        /\ lock_free(lock_actions[s])
        /\ lock_actions' = [lock_actions EXCEPT ![s] = th]
        /\ Storage(g_steps, [g_actions EXCEPT ![s] = out.left], g_refs)
        /\ t_pc' = [t_pc EXCEPT ![th] =
                      [pc EXCEPT !.at = "lock_steps", !.actions = g_actions[s],
                                 !.actions2 = out.owned]]
        /\ UNCHANGED <<t_handles, lock_steps, g_clock>>
        /\ NoCheckpointer /\ ConcFrame

\* build_checkpointer: self.steps.lock(), with the guard of the actions held
BuildLockSteps(th) ==
    LET pc == t_pc[th]
        s == pc.on
    IN  /\ pc.at = "lock_steps"
        /\ lock_free(lock_steps[s])
        /\ lock_steps' = [lock_steps EXCEPT ![s] = th]
        /\ t_pc' = [t_pc EXCEPT ![th] = [pc EXCEPT !.at = "build", !.map = g_steps[s]]]
        /\ UNCHANGED <<t_handles, lock_actions, g_clock>>
        /\ SameStorage /\ NoCheckpointer /\ ConcFrame

\* build_checkpointer: the builder runs on the owned actions and the locked
\* map and returns the checkpointer to the caller; both guards are dropped.
BuildRun(th) ==
    LET pc == t_pc[th]
        s == pc.on
    IN  /\ pc.at = "build"
        /\ lock_steps' = [lock_steps EXCEPT ![s] = 0]
        /\ lock_actions' = [lock_actions EXCEPT ![s] = 0]
        /\ t_pc' = [t_pc EXCEPT ![th] = IdlePc]
        /\ UNCHANGED <<t_handles, g_clock>>
        /\ SameStorage /\ NoCheckpointer /\ ConcFrame

\* What a forward operation of thread th emits: a main and a backup action
\* for its node, in one call.
EmittedBy(th) == {[main_actions |-> <<Action(g_clock + 1, th, "Computed")>>,
                   backup_actions |-> <<Action(g_clock + 2, th, "Recompute")>>]}

\* A thread calls an operation of Graph.
Call(th) ==
    \/ \E s \in Stores : CNew(th, s)
    \/ \E s \in Stores, u \in Threads : CClone(th, u, s)
    \/ \E s \in Stores : StartOwned(th, "register", s)
    \/ \E s \in Stores : StartOwned(th, "steps", s)
    \/ \E s \in Stores : StartOwned(th, "checkpointing_actions_own", s)
    \/ \E s, t \in Stores : StartMerge(th, s, t)
    \/ \E s \in Stores : \E actions \in EmittedBy(th) :
          StartBorrowed(th, "extend_checkpointing_actions", s, actions)
    \/ \E s \in Stores : StartBorrowed(th, "build_checkpointer", s, EmptyActions)

\* A thread takes the next step of the operation it is in.
Continue(th) ==
    \/ MergePtrEq(th)
    \/ EnterSteps(th)
    \/ WriteSteps(th)
    \/ EnterActions(th)
    \/ WriteActions(th)
    \/ ExtendLock(th)
    \/ ExtendPush(th)
    \/ BuildReplace(th)
    \/ BuildLockSteps(th)
    \/ BuildRun(th)

NextThreads == \E th \in Threads : Call(th) \/ Continue(th)

SpecThreads == InitGraph /\ [][NextThreads]_vars

\* Handles already made and handed to the threads: every thread has a handle
\* of storage 1, and each other storage has one handle, owned by some thread.
HandlesMade ==
    {h \in [Threads -> [Stores -> 0..1]] :
        /\ \A th \in Threads : h[th][1] = 1
        /\ \A s \in Stores \ {1} : SumSeq([th \in Threads |-> h[th][s]]) = 1}

InitShared ==
    /\ CheckpointIdle
    /\ g_steps = [s \in Stores |-> EmptySteps]
    /\ g_actions = [s \in Stores |-> EmptyActions]
    /\ g_drained = [s \in Stores |-> "no"]
    /\ g_merged = {}
    /\ g_last = NoGraphOp
    /\ g_clock = 0
    /\ merged3 = NoMerged3
    /\ t_handles \in HandlesMade
    /\ g_refs = [s \in Stores |-> SumSeq([th \in Threads |-> t_handles[th][s]])]
    /\ t_pc = [th \in Threads |-> IdlePc]
    /\ lock_steps = [s \in Stores |-> 0]
    /\ lock_actions = [s \in Stores |-> 0]

\* The operations that need a lock when the storage is shared.
CallShared(th) ==
    \/ \E s \in Stores : StartOwned(th, "register", s)
    \/ \E s \in Stores : StartOwned(th, "steps", s)
    \/ \E s \in Stores : StartOwned(th, "checkpointing_actions_own", s)
    \/ \E s, t \in Stores : StartMerge(th, s, t)
    \/ \E s \in Stores : \E actions \in EmittedBy(th) :
          StartBorrowed(th, "extend_checkpointing_actions", s, actions)
    \/ \E s \in Stores : StartBorrowed(th, "build_checkpointer", s, EmptyActions)

NextShared == \E th \in Threads : CallShared(th) \/ Continue(th)

\* The scheduler runs every thread, and a thread that finds a mutex free
\* again and again gets it.
SpecSharedFair ==
    InitShared /\ [][NextShared]_vars /\ \A th \in Threads : SF_vars(Continue(th))

\* ================================================================ claims
\* What the last operation did, read off its trace.
ReadsOf(x) == Cardinality({i \in 1..Len(last.reads) : last.reads[i][1] = x})
AskedOf(x) == Count(x, last.asked)
FailedRead == IF Len(last.asked) > Len(last.reads) THEN last.asked[Len(last.asked)] ELSE 0
FirstIndex(s, x) == CHOOSE i \in 1..Len(s) : s[i] = x /\ \A j \in 1..(i - 1) : s[j] # x

\* C1 (refcount conservation): an entry that an operation finds with
\* n_required = k >= 1 is read successfully at most k times by the operation's
\* consuming reads (the final read of Checkpoint::get, the parent reads of the
\* replay procedures); after r < k reads it is still present with n_required =
\* k - r, after the k-th read it has no entry, and a read asked after that is
\* a panic. The only reads of it that fail earlier are a downcast to the wrong
\* type and a read of a state that is still Recompute.
C1_RefcountConservation ==
    \A x \in Nodes :
        LET k == last.pre[x].n_required
            r == ReadsOf(x)
        IN  (last.op # "new" /\ last.pre[x].tag # "None" /\ k >= 1) =>
                /\ r <= k
                /\ (FailedRead # x) =>
                      /\ inner_states[x].n_required = k - r
                      /\ (r < k <=> inner_states[x].tag # "None")
                /\ (AskedOf(x) > k) => panicked # NoPanic
                /\ (FailedRead = x) =>
                      /\ panicked \in {PanicRemoveNone, PanicDowncast, PanicNoContent}
                      /\ (panicked = PanicRemoveNone => r = k)

\* One Checkpoint::get in which a parent with n_required = 2 is read once and
\* stays with n_required = 1, and a parent with n_required = 1 is read once
\* and loses its entry.
C1_Witness ==
    /\ last.op = "get"
    /\ panicked = NoPanic
    /\ \E x, y \in Nodes :
          /\ last.pre[x].n_required = 2 /\ ReadsOf(x) = 1 /\ inner_states[x].n_required = 1
          /\ last.pre[y].n_required = 1 /\ ReadsOf(y) = 1 /\ inner_states[y] = NoState

\* C3 (topological correctness): in the sequence topological_sort hands to
\* Checkpoint::get, every Recompute parent of a Recompute node m occurs
\* strictly before the first occurrence of m, and its replay procedure runs
\* before the one of m.
C3_TopologicalOrder ==
    (last.op = "get" /\ last.sort_err = NoPanic) =>
        \A m \in Range(last.sorted) :
            last.pre[m].tag = "Recompute" =>
                \A q \in Range(parents(node_tree, m)) :
                    last.pre[q].tag = "Recompute" =>
                        /\ \E j \in 1..(FirstIndex(last.sorted, m) - 1) : last.sorted[j] = q
                        /\ m \in Range(last.replayed) =>
                              \E j \in 1..(FirstIndex(last.replayed, m) - 1) : last.replayed[j] = q

\* A Checkpoint::get that replayed a Recompute node and its Recompute parent.
C3_Witness ==
    /\ last.op = "get"
    /\ panicked = NoPanic
    /\ \E m \in Range(last.replayed) :
          \E q \in Range(parents(node_tree, m)) : last.pre[q].tag = "Recompute"

\* The ancestors of n, and those of them reached by a path on which no node
\* before the last one is Computed in the store st.
RECURSIVE Closure(_, _, _)
Closure(st, S, stopAtComputed) ==
    LET more == S \cup UNION {Range(parents(node_tree, m)) :
                                m \in {x \in S : ~stopAtComputed \/ st[x].tag # "Computed"}}
    IN  IF more = S THEN S ELSE Closure(st, more, stopAtComputed)
Ancestors(n) == Closure(inner_states, {n}, FALSE) \ {n}
Frontier(st, n) == Closure(st, {n}, TRUE)

\* C5 (minimal frontier): a node that Checkpoint::get(n) can reach from n only
\* through a Computed node is not in the sorted sequence, is not replayed, is
\* not read, and keeps its entry.
C5_MinimalFrontier ==
    (last.op = "get") =>
        \A x \in Ancestors(last.node) \ Frontier(last.pre, last.node) :
            /\ x \notin Range(last.sorted)
            /\ x \notin Range(last.replayed)
            /\ x \notin Range(last.asked)
            /\ inner_states[x] = last.pre[x]

\* A Checkpoint::get that replayed a node, below whose Computed parent lies a
\* Recompute ancestor with an entry.
C5_Witness ==
    /\ last.op = "get"
    /\ panicked = NoPanic
    /\ last.replayed # <<>>
    /\ \E x \in Ancestors(last.node) \ Frontier(last.pre, last.node) :
          last.pre[x].tag = "Recompute"

\* C6 as stated: Checkpoint::get of a node without an entry panics with a
\* message that identifies the node, returns nothing and replays nothing.
C6_AbsentNodeNamed ==
    (last.op = "get" /\ last.pre[last.node] = NoState) =>
        /\ panicked # NoPanic
        /\ last.node \in NodesNamedIn(panicked)
        /\ last.ret = NoContent
        /\ last.replayed = <<>>

\* C7: insert_pre_computed(n, s) panics and leaves the store as it was when s
\* is Recompute; when s is Computed it makes s the entry of n, whatever entry
\* n had, and changes the entry of no other node.
C7_InsertPreComputed ==
    (last.op = "insert_pre_computed") =>
        /\ (last.arg.tag = "Recompute") =>
              /\ panicked = PanicManualRecompute
              /\ inner_states = last.pre
        /\ (last.arg.tag = "Computed") =>
              /\ panicked = NoPanic
              /\ inner_states[last.node] = last.arg
              /\ \A x \in Nodes \ {last.node} : inner_states[x] = last.pre[x]

\* A Computed state inserted over a different entry of the same node, next to
\* another node that has an entry.
C7_Witness ==
    /\ last.op = "insert_pre_computed"
    /\ last.arg.tag = "Computed"
    /\ last.pre[last.node] \notin {NoState, last.arg}
    /\ \E x \in Nodes \ {last.node} : last.pre[x] # NoState

\* C8: RetroForwards::forward of a Recompute node without a registered replay
\* procedure panics, and the store is as it was before the call.
C8_ForwardWithoutReplay ==
    (last.op = "forward" /\ last.pre[last.node].tag = "Recompute"
        /\ last.node \notin retro_forwards) =>
        /\ panicked = PanicNoReplay
        /\ last.replayed = <<>>
        /\ inner_states = last.pre

\* forward of an unregistered Recompute node whose parents all have entries.
C8_Witness ==
    /\ last.op = "forward"
    /\ last.pre[last.node].tag = "Recompute"
    /\ last.node \notin retro_forwards
    /\ parents(node_tree, last.node) # <<>>
    /\ \A q \in Range(parents(node_tree, last.node)) : last.pre[q].tag = "Computed"

\* C9: RetroForwards::forward of a Computed node does nothing: no replay, no
\* read, no panic, the same store, with or without a registered replay.
C9_ForwardComputedNoOp ==
    (last.op = "forward" /\ last.pre[last.node].tag = "Computed") =>
        /\ panicked = NoPanic
        /\ last.replayed = <<>>
        /\ last.asked = <<>>
        /\ inner_states = last.pre

\* forward of a Computed node that has a registered replay and readable parents.
C9_Witness ==
    /\ last.op = "forward"
    /\ last.pre[last.node].tag = "Computed"
    /\ last.node \in retro_forwards
    /\ parents(node_tree, last.node) # <<>>
    /\ \A q \in Range(parents(node_tree, last.node)) : last.pre[q].tag = "Computed"
\* The backward steps whose Checkpoint::get reaches x through nodes that the
\* builder left in Recompute state.
DependsOn(n, x) == x \in Frontier(hist.built, n)
StepsOn(x) == SumSeq([n \in 1..MaxNode |-> IF DependsOn(n, x) THEN hist.gets[n] ELSE 0])

\* C2 as stated (recompute idempotence under sharing): when two backward
\* steps depend on a node built as Recompute with n_required = 2, each
\* Checkpoint::get of those steps returns, the replay procedure of the node
\* has run exactly once when they are done, and all readers of the node
\* obtained the same value.
C2_ReplayOnceWhenShared ==
    \A x \in Nodes :
        (hist.built[x] = Recompute(2) /\ StepsOn(x) >= 2) =>
            /\ hist.replays[x] <= 1
            /\ Cardinality(hist.obtained[x]) <= 1
            /\ (last.op = "get" /\ DependsOn(last.node, x)) => panicked = NoPanic
            /\ (\A n \in Nodes : DependsOn(n, x) => plan[n] = 0) =>
                  /\ hist.replays[x] = 1
                  /\ Cardinality(hist.obtained[x]) = 1

\* C4 as stated: with every n_required equal to the number of reads the
\* consumers make, a Checkpoint::get of a backward step runs to completion:
\* no forward step misses its node, no replay misses a parent, a value is
\* returned.
C4_GetCompletes ==
    (last.op = "get") =>
        /\ panicked = NoPanic
        /\ last.ret # NoContent
\* C10 as stated (drain-once): Graph::steps returns exactly the entries the
\* storage holds and leaves it empty, and the storage then stays empty, so that
\* a later steps() through a handle sharing it returns an empty map, until a
\* step is registered.
C10_DrainOnce ==
    /\ (g_last.op = "steps") =>
          /\ g_last.ret = g_last.pre
          /\ g_steps[g_last.store] = EmptySteps
          /\ (g_last.again # "no") => g_last.ret = EmptySteps
    /\ \A s \in Stores : g_drained[s] # "no" => g_steps[s] = EmptySteps

\* C10 as amended: ... until a step is registered in the storage or another
\* graph is merged into it.
C10_DrainOnceUntilRegisterOrMerge ==
    /\ (g_last.op = "steps") =>
          /\ g_last.ret = g_last.pre
          /\ g_steps[g_last.store] = EmptySteps
          /\ (g_last.again # "no" /\ ~g_last.merged) => g_last.ret = EmptySteps
    /\ \A s \in Stores : (g_drained[s] # "no" /\ s \notin g_merged) => g_steps[s] = EmptySteps

\* A second steps() on a storage whose first steps() returned entries, through
\* a handle that shared the storage, with a third handle still alive.
C10_Witness ==
    /\ g_last.op = "steps"
    /\ g_last.again = "full"
    /\ g_last.ret = EmptySteps
    /\ g_refs[g_last.store] > 0

\* C11: Graph::merge of two handles of the same storage is a no-op: the step
\* map and the pending main and backup actions of the storage are as before,
\* no storage is drained, and the handle returned is a live handle of that
\* storage.
C11_MergeSameStorageNoOp ==
    (g_last.op = "merge" /\ g_last.store = g_last.other) =>
        /\ g_steps[g_last.store] = g_last.pre
        /\ g_actions[g_last.store] = g_last.pre_actions
        /\ g_last.drained = {}
        /\ g_last.ret_store = g_last.store
        /\ g_refs[g_last.store] >= 1

\* A merge of two handles of a storage that holds a step, a main action and a
\* backup action.
C11_Witness ==
    /\ g_last.op = "merge"
    /\ g_last.store = g_last.other
    /\ g_last.pre # EmptySteps
    /\ g_last.pre_actions.main_actions # <<>>
    /\ g_last.pre_actions.backup_actions # <<>>

\* The actions of a list, in the order of their registration.
InRegistrationOrder(list) == \A i, j \in 1..Len(list) : i < j => list[i].seq < list[j].seq
\* merged holds exactly the elements of left and of right.
ExactlyBoth(merged, left, right) ==
    /\ Len(merged) = Len(left) + Len(right)
    /\ Range(merged) = Range(left) \cup Range(right)

\* C14 as stated: after a merge of two graphs with distinct storage the main
\* list holds exactly the main actions of both sides and the backup list
\* exactly the backup actions of both sides, and in each list an action
\* registered earlier comes before an action registered later.
C14_ActionsInRegistrationOrder ==
    (g_last.op = "merge" /\ g_last.store # g_last.other) =>
        LET merged == g_actions[g_last.store]
        IN  /\ ExactlyBoth(merged.main_actions, g_last.pre_actions.main_actions,
                           g_last.other_actions.main_actions)
            /\ ExactlyBoth(merged.backup_actions, g_last.pre_actions.backup_actions,
                           g_last.other_actions.backup_actions)
            /\ InRegistrationOrder(merged.main_actions)
            /\ InRegistrationOrder(merged.backup_actions)

\* The policies the actions of a list ask for a node.
PoliciesFor(list, n) == {a.policy : a \in Range(ActionsFor(list, n))}

\* C17 (main over backup): the checkpointer build_checkpointer builds gives a
\* node that has a main action pending the state and the replay registration
\* a main action of the node asks for, whatever backup actions the node has
\* and whenever they were registered; a node with backup actions only gets
\* what a backup action asks for, a node with no action gets no entry.
C17_MainOverBackup ==
    (g_last.op = "build_checkpointer") =>
        \A n \in Nodes :
            LET main == PoliciesFor(g_last.pre_actions.main_actions, n)
                backup == PoliciesFor(g_last.pre_actions.backup_actions, n)
            IN  /\ (main # {}) => inner_states[n].tag \in main
                /\ (main = {} /\ backup # {}) => inner_states[n].tag \in backup
                /\ (main = {} /\ backup = {}) => inner_states[n] = NoState
                /\ n \in retro_forwards <=> inner_states[n].tag = "Recompute"

\* A checkpointer built from a backup action registered before a main action
\* of another policy for the same node, and a backup action for a node
\* without a main action.
C17_Witness ==
    /\ g_last.op = "build_checkpointer"
    /\ \E n \in Nodes :
          \E a \in Range(ActionsFor(g_last.pre_actions.main_actions, n)) :
              \E b \in Range(ActionsFor(g_last.pre_actions.backup_actions, n)) :
                  b.seq < a.seq /\ a.policy # b.policy
    /\ \E n \in Nodes :
          /\ ActionsFor(g_last.pre_actions.main_actions, n) = <<>>
          /\ ActionsFor(g_last.pre_actions.backup_actions, n) # <<>>

PairwiseDisjoint(a, b, c) ==
    /\ Keys(a) \cap Keys(b) = {}
    /\ Keys(a) \cap Keys(c) = {}
    /\ Keys(b) \cap Keys(c) = {}

\* C12 (merge associativity on steps): for three step maps with pairwise
\* disjoint node ids, merging a with b and the result with c gives the same
\* map as merging a with the result of merging b with c; that map holds the
\* entries of all three.
C12_MergeAssociative ==
    (merged3.done /\ PairwiseDisjoint(merged3.a, merged3.b, merged3.c)) =>
        /\ merged3.left = merged3.right
        /\ \A n \in Nodes :
              merged3.left[n] \in {merged3.a[n], merged3.b[n], merged3.c[n]}
        /\ Keys(merged3.left) = Keys(merged3.a) \cup Keys(merged3.b) \cup Keys(merged3.c)

\* Three non-empty disjoint maps merged in both groupings.
C12_Witness ==
    /\ merged3.done
    /\ PairwiseDisjoint(merged3.a, merged3.b, merged3.c)
    /\ Keys(merged3.a) # {} /\ Keys(merged3.b) # {} /\ Keys(merged3.c) # {}
    /\ merged3.left = merged3.right

\* C13 as stated: the map of a.merge(b) has the keys of both maps, each with
\* a step one of the two maps holds for it, and the step kept for a node id
\* present on both sides does not depend on the sizes of the maps: when a and
\* c hold the same step for such an id, a.merge(b) and c.merge(b) keep the
\* same step for it.
C13_MergeIndependentOfSizes ==
    merged3.done =>
        /\ Keys(merged3.ab) = Keys(merged3.a) \cup Keys(merged3.b)
        /\ \A n \in Keys(merged3.ab) :
              merged3.ab[n] \in {merged3.a[n], merged3.b[n]} \ {NoStep}
        /\ \A n \in Keys(merged3.a) \cap Keys(merged3.b) \cap Keys(merged3.c) :
              merged3.a[n] = merged3.c[n] => merged3.ab[n] = merged3.cb[n]

\* A node built as Recompute with n_required = k >= 2, all of whose k reads are
\* Checkpoint::get calls of backward steps, and whose parents are all built
\* as Computed with n_required = 1.
SharedRecompute(n) ==
    /\ hist.built[n].tag = "Recompute"
    /\ hist.built[n].n_required >= 2
    /\ hist.gets[n] = hist.built[n].n_required
    /\ \A q \in Range(parents(node_tree, n)) :
          hist.built[q].tag = "Computed" /\ hist.built[q].n_required = 1
GetsDone(n) == hist.gets[n] - plan[n]

\* C18: for such a node n, every Checkpoint::get(n) returns a value; the first
\* one invokes the replay of n (and no other), the later ones invoke none, so
\* that the replay has run once and every get returned the same value; after
\* the first get no parent has an entry; after j < k gets n is Computed with
\* that value and n_required = k - j, and the k-th get removes its entry.
C18_RecomputedOnceThenServed ==
    (last.op = "get" /\ SharedRecompute(last.node)) =>
        LET n == last.node
            k == hist.built[n].n_required
        IN  /\ panicked = NoPanic
            /\ last.ret # NoContent
            /\ hist.replays[n] = 1
            /\ hist.obtained[n] = {last.ret}
            /\ last.replayed = IF GetsDone(n) = 1 THEN <<n>> ELSE <<>>
            /\ \A q \in Range(parents(node_tree, n)) : inner_states[q] = NoState
            /\ inner_states[n] = IF GetsDone(n) = k THEN NoState
                                 ELSE Computed(last.ret, k - GetsDone(n))

\* The k-th get of a node replayed from two parents by the first get.
C18_Witness ==
    /\ last.op = "get"
    /\ SharedRecompute(last.node)
    /\ Cardinality(Range(parents(node_tree, last.node))) = 2
    /\ GetsDone(last.node) = hist.built[last.node].n_required
    /\ last.replayed = <<>>
    /\ hist.replays[last.node] = 1
    /\ inner_states[last.node] = NoState

\* The reads an entry still allows, none when there is no entry.
Remaining(state) == IF state.tag = "None" THEN 0 ELSE state.n_required

\* C20 as stated: a get_owned_and_downcasted of a node that has an entry,
\* also one seeded with n_required = 0, fails or leaves the node with a
\* strictly smaller n_required (no entry counting as zero).
C20_NRequiredDecreases ==
    (last.op = "get_owned_and_downcasted" /\ last.pre[last.node].tag # "None") =>
        \/ panicked # NoPanic
        \/ Remaining(inner_states[last.node]) < last.pre[last.node].n_required

\* C15: a thread whose closure is changing the step map of a storage either
\* holds the only handle of the storage and has not taken the lock, or holds
\* the lock of the map; no other thread is changing that map, and the map is
\* still the one the closure was given, so that the write loses no step
\* registered by another thread.
C15_MutationsExclusive ==
    \A th \in Threads :
        LET pc == t_pc[th]
        IN  (pc.at = "write_steps") =>
                /\ pc.in_place => (g_refs[pc.on] = 1 /\ lock_steps[pc.on] = 0)
                /\ ~pc.in_place => lock_steps[pc.on] = th
                /\ pc.map = g_steps[pc.on]
                /\ \A u \in Threads \ {th} :
                      ~(t_pc[u].at = "write_steps" /\ t_pc[u].on = pc.on)

\* A thread registering a step under the lock of a map that already holds a
\* step, while the other thread waits to register a step in the same map.
C15_Witness ==
    \E th, u \in Threads :
        /\ t_pc[th].op = "register" /\ t_pc[th].at = "write_steps" /\ ~t_pc[th].in_place
        /\ t_pc[th].map # EmptySteps
        /\ t_pc[u].op = "register" /\ t_pc[u].at = "enter_steps" /\ t_pc[u].on = t_pc[th].on

\* The actions of one extend_checkpointing_actions call are all there or all
\* missing: every main action has the backup action emitted with it, and
\* every backup action its main action.
Entire(actions) ==
    /\ \A a \in Range(actions.main_actions) :
          \E b \in Range(actions.backup_actions) : b.seq = a.seq + 1
    /\ \A b \in Range(actions.backup_actions) :
          \E a \in Range(actions.main_actions) : b.seq = a.seq + 1

\* C16: while build_checkpointer holds the lock of the actions, the actions
\* it hands to the builder are exactly the main and backup actions that were
\* pending when it took the lock, the pending actions of the storage are
\* empty, and the step map is the one it locked; the actions of a concurrent
\* extend_checkpointing_actions are all among the actions handed to the
\* builder or all still pending, never some of them.
C16_BuildDrainsAtomically ==
    /\ \A th \in Threads :
          LET pc == t_pc[th]
          IN  (pc.op = "build_checkpointer" /\ pc.at \in {"lock_steps", "build"}) =>
                  /\ lock_actions[pc.on] = th
                  /\ pc.actions2 = pc.actions
                  /\ g_actions[pc.on] = EmptyActions
                  /\ Entire(pc.actions2)
                  /\ (pc.at = "build") => (lock_steps[pc.on] = th /\ g_steps[pc.on] = pc.map)
    /\ \A s \in Stores :
          (lock_actions[s] = 0 /\ \A th \in Threads : ~(t_pc[th].at = "write_actions" /\ t_pc[th].on = s))
              => Entire(g_actions[s])

\* A build_checkpointer about to hand the builder the main and the backup
\* action that the other thread registered in one call, with a step in the map.
C16_Witness ==
    \E th, u \in Threads :
        /\ th # u
        /\ t_pc[th].op = "build_checkpointer" /\ t_pc[th].at = "build"
        /\ \E a \in Range(t_pc[th].actions2.main_actions) : a.node = u
        /\ \E b \in Range(t_pc[th].actions2.backup_actions) : b.node = u
        /\ g_steps[t_pc[th].on] # EmptySteps

====
